---- MODULE Spec2Model ----
(***************************************************************************)
(* Real-time messaging layer of the Alumni-Sphere backend:                 *)
(* socket.io connections authenticated by socketAuth, the personal room    *)
(* user_<userId>, the conversation rooms conversation_<conversationId>,    *)
(* and the io object the route handlers use to emit into rooms.            *)
(*                                                                         *)
(* Room names are strings; a string is modelled as the sequence of its     *)
(* pieces, so that `conversation_${conversationId}` is a concatenation     *)
(* and a client-chosen conversationId such as "user_u1" is an input.       *)
(* Node runs every handler to completion, so each handler is one action.   *)
(***************************************************************************)
EXTENDS Naturals, Sequences, FiniteSets, TLC

\* Bounds of the model.
NumConns == 2
MaxInflight == 1

None == "none"
Conns == 1..NumConns
Users == {"u1", "u2"}

\* Handshake credentials a client may present: a token that verifies for a
\* user, no token at all, or a token that does not verify (malformed, expired
\* or signed with another key: verification treats the three alike).
BadKinds == {"missing", "invalid"}
NoToken == [kind |-> None, user |-> None]
Tokens == [kind : {"valid"}, user : Users] \cup [kind : BadKinds, user : {None}]

\* conversationId values a client may send: an existing conversation, and a
\* string chosen to look like another user's personal room name.
ConvIds == {<<"c1">>, <<"user_", "u1">>}

\* The data store's answer to "is user u a participant of conversation id?".
\* Only conversation c1 exists, and only u1 takes part in it.
isParticipant(u, id) == u = "u1" /\ id = <<"c1">>

\* middleware/auth socketAuth: resolves the token to socket.userId, or fails.
socketAuth(tok) == IF tok.kind = "valid" THEN tok.user ELSE None

\* `user_${socket.userId}`
UserRoom(u) == <<"user_", u>>

\* Variant: the client's conversationId used as the room name as it is.
ConvRoomRaw(id) == id

\* `conversation_${conversationId}`
ConvRoom(id) == <<"conversation_">> \o id

\* The room socket.io names after the socket's own id.
SidRoom(c) == <<"sid", ToString(c)>>

Requests == [op : {"join", "leave"}, id : ConvIds]

VARIABLES
    cstate,      \* per connection: idle, unauthenticated, authenticated, refused, terminated
    token,       \* per connection: the handshake credential presented
    userId,      \* per connection: socket.userId
    rooms,       \* room name -> set of member connections (entries exist only for rooms in the map)
    sids,        \* registered connection -> set of room names
    inflight,    \* per connection: packets received and not yet handed to a handler
    emitted      \* the emits made by the step just taken, each [room, recipients]

vars == <<cstate, token, userId, rooms, sids, inflight, emitted>>

Range(s) == {s[i] : i \in DOMAIN s}

RECURSIVE SetToSeq(_)
SetToSeq(S) == IF S = {} THEN <<>>
               ELSE LET x == CHOOSE y \in S : TRUE IN <<x>> \o SetToSeq(S \ {x})

RECURSIVE SumLen(_, _)
SumLen(q, S) == IF S = {} THEN 0
                ELSE LET x == CHOOSE y \in S : TRUE IN Len(q[x]) + SumLen(q, S \ {x})

\* ---- the room maps (socket.io's in-memory adapter) ----

RoomsAdd(rm, room, c) ==
    IF room \in DOMAIN rm THEN [rm EXCEPT ![room] = @ \cup {c}]
    ELSE rm @@ (room :> {c})

\* Variant: the entry of a room is kept when its last member leaves.
RoomsDelKeepEmpty(rm, room, c) ==
    IF room \in DOMAIN rm THEN [rm EXCEPT ![room] = @ \ {c}] ELSE rm

RoomsDel(rm, room, c) ==
    IF room \notin DOMAIN rm THEN rm
    ELSE IF rm[room] \ {c} = {} THEN [r \in DOMAIN rm \ {room} |-> rm[r]]
    ELSE [rm EXCEPT ![room] = @ \ {c}]

SidsAdd(sd, c, room) ==
    IF c \in DOMAIN sd THEN [sd EXCEPT ![c] = @ \cup {room}]
    ELSE sd @@ (c :> {room})

SidsDel(sd, c, room) ==
    IF c \in DOMAIN sd THEN [sd EXCEPT ![c] = @ \ {room}] ELSE sd

RECURSIVE RoomsDelEach(_, _, _)
RoomsDelEach(rm, rs, c) ==
    IF rs = {} THEN rm
    ELSE LET r == CHOOSE x \in rs : TRUE IN RoomsDelEach(RoomsDel(rm, r, c), rs \ {r}, c)

RoomsOf(c) == IF c \in DOMAIN sids THEN sids[c] ELSE {}
MembersOf(room) == IF room \in DOMAIN rooms THEN rooms[room] ELSE {}

Init ==
    /\ cstate = [c \in Conns |-> "idle"]
    /\ token = [c \in Conns |-> NoToken]
    /\ userId = [c \in Conns |-> None]
    /\ rooms = << >>
    /\ sids = << >>
    /\ inflight = [c \in Conns |-> <<>>]
    /\ emitted = <<>>

\* A client opens a connection and presents its handshake credential.
Connect(c, tok) ==
    /\ cstate[c] = "idle"
    /\ cstate' = [cstate EXCEPT ![c] = "unauthenticated"]
    /\ token' = [token EXCEPT ![c] = tok]
    /\ emitted' = <<>>
    /\ UNCHANGED <<userId, rooms, sids, inflight>>

\* io.on("connection"): socket.io has put the socket in the room of its own
\* id; the handler joins it to the personal room of socket.userId.
OnConnection(c, u) ==
    /\ rooms' = RoomsAdd(RoomsAdd(rooms, SidRoom(c), c), UserRoom(u), c)
    /\ sids' = SidsAdd(SidsAdd(sids, c, SidRoom(c)), c, UserRoom(u))

\* Variant: the connection handler runs whatever the middleware found.
HandshakeNoAuth(c) ==
    /\ cstate[c] = "unauthenticated"
    /\ cstate' = [cstate EXCEPT ![c] = "authenticated"]
    /\ userId' = [userId EXCEPT ![c] = socketAuth(token[c])]
    /\ OnConnection(c, socketAuth(token[c]))
    /\ emitted' = <<>>
    /\ UNCHANGED <<token, inflight>>

\* io.use(socketAuth): the middleware runs once per connection, before the
\* connection handler; when it fails the connection is refused and the
\* connection handler never runs.
Handshake(c) ==
    /\ cstate[c] = "unauthenticated"
    /\ LET u == socketAuth(token[c]) IN
         IF u # None
         THEN /\ cstate' = [cstate EXCEPT ![c] = "authenticated"]
              /\ userId' = [userId EXCEPT ![c] = u]
              /\ OnConnection(c, u)
         ELSE /\ cstate' = [cstate EXCEPT ![c] = "refused"]
              /\ UNCHANGED <<userId, rooms, sids>>
    /\ emitted' = <<>>
    /\ UNCHANGED <<token, inflight>>

\* The client emits joinConversation / leaveConversation; the packet waits
\* for the socket's event dispatch.
Send(c, req) ==
    /\ cstate[c] \in {"unauthenticated", "authenticated"}
    /\ SumLen(inflight, Conns) < MaxInflight
    /\ inflight' = [inflight EXCEPT ![c] = Append(@, req)]
    /\ emitted' = <<>>
    /\ UNCHANGED <<cstate, token, userId, rooms, sids>>

\* socket.on("joinConversation", ...)
joinConversation(c, conversationId) ==
    /\ rooms' = RoomsAdd(rooms, ConvRoom(conversationId), c)
    /\ sids' = SidsAdd(sids, c, ConvRoom(conversationId))

\* Variant: the leave names the room by the bare conversationId.
leaveConversationRaw(c, conversationId) ==
    /\ rooms' = RoomsDel(rooms, conversationId, c)
    /\ sids' = SidsDel(sids, c, conversationId)

\* Variant: the leave updates the room's members and not the socket's rooms.
leaveConversationIndexOnly(c, conversationId) ==
    /\ rooms' = RoomsDel(rooms, ConvRoom(conversationId), c)
    /\ UNCHANGED sids

\* socket.on("leaveConversation", ...)
leaveConversation(c, conversationId) ==
    /\ rooms' = RoomsDel(rooms, ConvRoom(conversationId), c)
    /\ sids' = SidsDel(sids, c, ConvRoom(conversationId))

\* Variant: the handler runs although the socket has disconnected.
ReceiveAfterClose(c) ==
    /\ inflight[c] # <<>>
    /\ inflight' = [inflight EXCEPT ![c] = Tail(@)]
    /\ LET req == Head(inflight[c]) IN
         IF req.op = "join" THEN joinConversation(c, req.id)
         ELSE leaveConversation(c, req.id)
    /\ emitted' = <<>>
    /\ UNCHANGED <<cstate, token, userId>>

\* The next packet of a connection reaches the handler registered for it in
\* the connection handler; a socket that is not connected has no handler run.
Receive(c) ==
    /\ inflight[c] # <<>>
    /\ inflight' = [inflight EXCEPT ![c] = Tail(@)]
    /\ LET req == Head(inflight[c]) IN
         IF cstate[c] = "authenticated"
         THEN IF req.op = "join" THEN joinConversation(c, req.id)
              ELSE leaveConversation(c, req.id)
         ELSE UNCHANGED <<rooms, sids>>
    /\ emitted' = <<>>
    /\ UNCHANGED <<cstate, token, userId>>

\* Variant: the disconnect releases the socket's own rooms and no
\* conversation room.
DisconnectPersonalOnly(c) ==
    /\ cstate[c] \in {"unauthenticated", "authenticated"}
    /\ cstate' = [cstate EXCEPT ![c] = "terminated"]
    /\ rooms' = RoomsDelEach(rooms, RoomsOf(c) \cap {SidRoom(c), UserRoom(userId[c])}, c)
    /\ sids' = [x \in DOMAIN sids \ {c} |-> sids[x]]
    /\ emitted' = <<>>
    /\ UNCHANGED <<token, userId, inflight>>

\* socket.on("disconnect", ...): the transport closed; socket.io has taken the
\* socket out of every room it was in, the handler only logs.
Disconnect(c) ==
    /\ cstate[c] \in {"unauthenticated", "authenticated"}
    /\ cstate' = [cstate EXCEPT ![c] = "terminated"]
    /\ rooms' = RoomsDelEach(rooms, RoomsOf(c), c)
    /\ sids' = [x \in DOMAIN sids \ {c} |-> sids[x]]
    /\ emitted' = <<>>
    /\ UNCHANGED <<token, userId, inflight>>

\* Rooms the route handlers emit into: personal rooms and conversation rooms.
DispatchRooms == {UserRoom(u) : u \in Users} \cup {ConvRoom(id) : id \in ConvIds}

RECURSIVE EachRoom(_)
EachRoom(rs) ==
    IF rs = {} THEN <<>>
    ELSE LET r == CHOOSE x \in rs : TRUE IN SetToSeq(rooms[r]) \o EachRoom(rs \ {r})

\* Variant: the emit walks every room of the index.
BroadcastAll(room) == EachRoom(DOMAIN rooms)

\* Variant: the emit goes to every registered socket.
BroadcastEveryone(room) == SetToSeq(DOMAIN sids)

\* io.to(room).emit(...): one delivery per member of the room.
Broadcast(room) == SetToSeq(MembersOf(room))

\* A route handler takes io from the app and emits an event into a room.
Dispatch(room) ==
    /\ emitted' = <<[room |-> room, recipients |-> Broadcast(room)]>>
    /\ UNCHANGED <<cstate, token, userId, rooms, sids, inflight>>

\* A packet of a connected socket arrives and its handler runs at once.
Request(c, req) ==
    /\ cstate[c] = "authenticated"
    /\ IF req.op = "join" THEN joinConversation(c, req.id)
       ELSE leaveConversation(c, req.id)
    /\ emitted' = <<>>
    /\ UNCHANGED <<cstate, token, userId, inflight>>

\* Connections, their requests (queued until their handler runs) and rooms.
Next ==
    \/ \E c \in Conns, tok \in Tokens : Connect(c, tok)
    \/ \E c \in Conns : Handshake(c)
    \/ \E c \in Conns, req \in Requests : Send(c, req)
    \/ \E c \in Conns : Receive(c)
    \/ \E c \in Conns : Disconnect(c)

Spec == Init /\ [][Next]_vars

\* Connections, rooms and the route handlers' emits into rooms.
NextDispatch ==
    \/ \E c \in Conns, tok \in Tokens : Connect(c, tok)
    \/ \E c \in Conns : Handshake(c)
    \/ \E c \in Conns, req \in Requests : Request(c, req)
    \/ \E c \in Conns : Disconnect(c)
    \/ \E room \in DispatchRooms : Dispatch(room)

SpecDispatch == Init /\ [][NextDispatch]_vars

\* ---------------------------------------------------------------------------
\* Properties
\* ---------------------------------------------------------------------------

FailedAuth(c) == token[c] \in Tokens /\ socketAuth(token[c]) = None
InSomeRoom(c) == \E r \in DOMAIN rooms : c \in rooms[r]
MemberRooms(c) == {r \in DOMAIN rooms : c \in rooms[r]}

\* C1: a connection is a member of a conversation room only if its user is a
\* participant of that conversation; a join by a non-participant, or for a
\* conversation that does not exist, changes no membership.
C1_OnlyParticipantsJoin ==
    \A c \in Conns, id \in ConvIds :
        (c \in MembersOf(ConvRoom(id)) \/ ConvRoom(id) \in RoomsOf(c))
            => isParticipant(userId[c], id)

\* C2: a connection whose credential fails authentication is never registered,
\* is never a member of any room, and none of its join/leave requests is
\* processed (the step that consumes one changes no membership).
C2_FailedAuthNeverAdmitted ==
    [][\A c \in Conns :
          /\ FailedAuth(c) =>
                /\ cstate[c] # "authenticated" /\ cstate'[c] # "authenticated"
                /\ c \notin DOMAIN sids /\ c \notin DOMAIN sids'
                /\ ~InSomeRoom(c) /\ ~InSomeRoom(c)'
                /\ inflight'[c] # inflight[c] => rooms' = rooms /\ sids' = sids
          /\ FailedAuth(c)' =>
                /\ cstate'[c] # "authenticated"
                /\ c \notin DOMAIN sids'
                /\ ~InSomeRoom(c)']_vars

C2_Witness ==
    \E c \in Conns :
        /\ FailedAuth(c)
        /\ cstate[c] = "refused"
        /\ inflight[c] # <<>>
        /\ \E d \in Conns : cstate[d] = "authenticated"

\* C3: a connection is a member of the personal room of user u exactly when it
\* is authenticated, not disconnected, and its user is u, whatever
\* conversationId values the clients send.
C3_PersonalRoomExact ==
    \A c \in Conns, u \in Users :
        LET owns == cstate[c] = "authenticated" /\ userId[c] = u IN
        /\ c \in MembersOf(UserRoom(u)) <=> owns
        /\ UserRoom(u) \in RoomsOf(c) <=> owns

C3_Witness ==
    \E c \in Conns :
        /\ cstate[c] = "authenticated"
        /\ userId[c] = "u2"
        /\ ConvRoom(<<"user_", "u1">>) \in RoomsOf(c)
        /\ \E d \in Conns : cstate[d] = "authenticated" /\ userId[d] = "u1"

\* C4: a disconnect takes the connection out of every room it was in, and a
\* room the disconnect leaves without members has no entry afterwards.
C4_DisconnectReleasesRooms ==
    [][\A c \in Conns :
          (cstate[c] = "authenticated" /\ cstate'[c] = "terminated") =>
              /\ c \notin DOMAIN sids'
              /\ \A r \in DOMAIN rooms' : c \notin rooms'[r]
              /\ \A r \in DOMAIN rooms : rooms[r] \subseteq {c} => r \notin DOMAIN rooms'
              /\ \A r \in DOMAIN rooms : rooms[r] \ {c} # {} =>
                    r \in DOMAIN rooms' /\ rooms'[r] = rooms[r] \ {c}]_vars

C4_Witness ==
    \E c, d \in Conns :
        /\ cstate[c] = "terminated" /\ userId[c] # None
        /\ cstate[d] = "authenticated"
        /\ userId[d] = userId[c]
        /\ MembersOf(UserRoom(userId[c])) = {d}
        /\ ConvRoom(<<"c1">>) \notin DOMAIN rooms

\* C5: a dispatch to a room delivers to exactly the connections that are
\* members of that room, to none that is only in other rooms, and to nobody
\* when the room has no members.
C5_DispatchExactlyMembers ==
    \A i \in DOMAIN emitted :
        /\ Range(emitted[i].recipients) = {c \in Conns : emitted[i].room \in RoomsOf(c)}
        /\ MembersOf(emitted[i].room) = {} => emitted[i].recipients = <<>>

C5_Witness ==
    /\ emitted # <<>>
    /\ emitted[1].recipients # <<>>
    /\ \E c \in Conns, r \in DispatchRooms :
          /\ r # emitted[1].room
          /\ r \in RoomsOf(c)
          /\ c \notin Range(emitted[1].recipients)

C7_DisconnectWins ==
    [][\A c \in Conns :
          cstate[c] = "terminated" =>
              /\ cstate'[c] = "terminated"
              /\ RoomsOf(c) = {} /\ RoomsOf(c)' = {}
              /\ ~InSomeRoom(c) /\ ~InSomeRoom(c)'
              /\ inflight'[c] # inflight[c] => rooms' = rooms /\ sids' = sids]_vars

C7_Witness ==
    \E c, d \in Conns :
        /\ cstate[c] = "terminated" /\ userId[c] # None
        /\ inflight[c] # <<>> /\ Head(inflight[c]).op = "join"
        /\ cstate[d] = "authenticated"

\* C8: join and leave are idempotent on a (room, connection) pair: a handled
\* join makes the connection a member of that room and a handled leave makes
\* it a non-member, a join of a member and a leave of a non-member change
\* nothing, and no other step changes the rooms of a live connection; so the
\* connection is a member exactly when its last handled request was a join.
C8_JoinLeaveIdempotent ==
    [][\A c \in Conns :
          IF cstate[c] = "authenticated" /\ inflight[c] # <<>>
                /\ inflight'[c] = Tail(inflight[c])
          THEN LET req == Head(inflight[c])
                   r == ConvRoom(req.id)
                   isIn == r \in RoomsOf(c) /\ c \in MembersOf(r)
                   isOut == r \notin RoomsOf(c) /\ c \notin MembersOf(r)
               IN  /\ req.op = "join" =>
                        /\ RoomsOf(c)' = RoomsOf(c) \cup {r}
                        /\ MemberRooms(c)' = MemberRooms(c) \cup {r}
                        /\ isIn => rooms' = rooms /\ sids' = sids
                   /\ req.op = "leave" =>
                        /\ RoomsOf(c)' = RoomsOf(c) \ {r}
                        /\ MemberRooms(c)' = MemberRooms(c) \ {r}
                        /\ isOut => rooms' = rooms /\ sids' = sids
          ELSE (cstate[c] = "authenticated" /\ cstate'[c] = "authenticated") =>
                   /\ RoomsOf(c)' = RoomsOf(c)
                   /\ MemberRooms(c)' = MemberRooms(c)]_vars

C8_Witness ==
    \E c \in Conns :
        /\ cstate[c] = "authenticated"
        /\ ConvRoom(<<"c1">>) \in RoomsOf(c)
        /\ inflight[c] # <<>>
        /\ Head(inflight[c]) = [op |-> "join", id |-> <<"c1">>]

\* C9: the connection side and the room side of membership agree: c lists r
\* exactly when r's members contain c, and every member of a room is a
\* registered (authenticated, not terminated) connection.
C9_MembershipSymmetric ==
    /\ \A c \in Conns :
          \A r \in DOMAIN rooms \cup RoomsOf(c) : r \in RoomsOf(c) <=> c \in MembersOf(r)
    /\ \A r \in DOMAIN rooms : rooms[r] \subseteq DOMAIN sids
    /\ DOMAIN sids = {c \in Conns : cstate[c] = "authenticated"}

C9_Witness ==
    \E c, d \in Conns :
        /\ c # d
        /\ cstate[c] = "authenticated" /\ cstate[d] = "terminated" /\ userId[d] # None
        /\ Cardinality(RoomsOf(c)) >= 3
        /\ inflight[c] = <<>>

\* C10: the room index holds no empty room: a room has an entry exactly while
\* some connection is a member of it.
C10_NoEmptyRoom ==
    /\ \A r \in DOMAIN rooms : rooms[r] # {}
    /\ DOMAIN rooms = UNION {RoomsOf(c) : c \in Conns}

C10_Witness ==
    \E c \in Conns :
        /\ cstate[c] = "terminated" /\ userId[c] # None
        /\ UserRoom(userId[c]) \notin DOMAIN rooms
        /\ rooms # << >>
====
